---------------------------- MODULE Spec2Model ----------------------------
(* A model of the two command line tools of the repository:                *)
(*   src/mistral_ocr.py            upload a PDF, run OCR, assemble Markdown *)
(*   src/requirement_extractor.py  read text, ask the model, write a CSV    *)
(* Strings are TLA+ strings; Len, \o and SubSeq act on them as on Python    *)
(* str values.  A Python dict is a sequence of <<key, value>> pairs with    *)
(* distinct keys, in insertion order.                                       *)
EXTENDS Integers, Sequences, FiniteSets, TLC

VARIABLES
    tool,             \* which entry point runs
    pc,               \* position in the running code
    environ_key,      \* os.environ's MISTRALAI_API_KEY: "unset", "empty", "set"
    dotenv_key,       \* what a .env file holds for the key: "unset", "set"
    argv_path,        \* sys.argv[1] of the OCR tool, "none" when missing
    disk,             \* what the input path names: [target, is_file, readable]
    steps,            \* history: <<[op, ok]>> of every step performed
    files,            \* local files created by this run: set of [path, data, complete]
    out_dir,          \* the extractor's output directory: "absent", "dir", "blocked"
    log,              \* logging records: <<[level, msg]>>
    exc,              \* the exception in flight, "none" when there is none
    exit_status,      \* the process's exit status "0" or "1", "running" until it ends
    ret,              \* the value a library call returned: [kind, value]
    image,            \* the image helpers' file: [state, size, width, height]
    pdf_response,     \* OCRResponse.pages: <<[markdown, images]>>
    markdowns,        \* get_combined_markdown's list
    markdown_content, \* get_combined_markdown's return value, "unset" before
    markdown_in,      \* replace_images_in_markdown's first argument as passed
    markdown_str,     \* replace_images_in_markdown's local, rebound by its loop
    images_dict,      \* replace_images_in_markdown's second argument
    item_idx,         \* items of images_dict already processed
    input_size        \* history: pieces of input composed so far

toolRest == <<tool, environ_key, dotenv_key, argv_path, disk, steps, files,
              out_dir, log, exc, exit_status, ret, image>>
toolVars == <<tool, pc, environ_key, dotenv_key, argv_path, disk, steps, files,
              out_dir, log, exc, exit_status, ret, image>>
mdVars   == <<pdf_response, markdowns, markdown_content>>
replLocals == <<markdown_in, markdown_str, images_dict, item_idx>>
replVars == <<replLocals, input_size>>
vars     == <<toolVars, mdVars, replVars>>

-----------------------------------------------------------------------------
(* Python str and dict operations                                           *)

Char(s, i) == SubSeq(s, i, i)

StartsWith(s, p) == Len(s) >= Len(p) /\ SubSeq(s, 1, Len(p)) = p

EndsWith(s, p) == Len(s) >= Len(p) /\ SubSeq(s, Len(s) - Len(p) + 1, Len(s)) = p

\* (mutant) str.replace(old, new, 1): only the first occurrence
RECURSIVE StrReplaceFirst(_, _, _)
StrReplaceFirst(s, old, new) ==
    IF Len(s) < Len(old) THEN s
    ELSE IF StartsWith(s, old)
         THEN new \o SubSeq(s, Len(old) + 1, Len(s))
         ELSE Char(s, 1) \o StrReplaceFirst(SubSeq(s, 2, Len(s)), old, new)

\* str.replace(old, new) for a non-empty old: the leftmost occurrences, not
\* overlapping, scanning left to right.
RECURSIVE StrReplace(_, _, _)
StrReplace(s, old, new) ==
    IF Len(s) < Len(old) THEN s
    ELSE IF StartsWith(s, old)
         THEN new \o StrReplace(SubSeq(s, Len(old) + 1, Len(s)), old, new)
         ELSE Char(s, 1) \o StrReplace(SubSeq(s, 2, Len(s)), old, new)

\* sep.join(list)
RECURSIVE StrJoin(_, _)
StrJoin(sep, list) ==
    IF list = <<>> THEN ""
    ELSE IF Len(list) = 1 THEN list[1]
    ELSE list[1] \o sep \o StrJoin(sep, Tail(list))

DictKeys(d) == {d[i][1] : i \in 1..Len(d)}

\* d[k] = v: a present key keeps its place and takes the new value, a new
\* key goes last.
DictSet(d, k, v) ==
    IF k \in DictKeys(d)
    THEN [i \in 1..Len(d) |-> IF d[i][1] = k THEN <<k, v>> ELSE d[i]]
    ELSE Append(d, <<k, v>>)

-----------------------------------------------------------------------------
(* pathlib, str.lower, base64, json as the tools use them                   *)

\* str.rfind(c) over s[1..i], 0 when c is not there
RECURSIVE RFind(_, _, _)
RFind(s, c, i) ==
    IF i = 0 THEN 0 ELSE IF Char(s, i) = c THEN i ELSE RFind(s, c, i - 1)

\* PurePath.name: the final component
PathName(path) == SubSeq(path, RFind(path, "/", Len(path)) + 1, Len(path))

\* PurePath.suffix: from the last dot of the name, unless the dot leads or
\* ends the name
Suffix(path) ==
    LET name == PathName(path)
        i    == RFind(name, ".", Len(name))
    IN IF 1 < i /\ i < Len(name) THEN SubSeq(name, i, Len(name)) ELSE ""

\* PurePath.with_suffix(suffix) of a path with a name
WithSuffix(path, suffix) == SubSeq(path, 1, Len(path) - Len(Suffix(path))) \o suffix

UpperCase == "ABCDEFGHIJKLMNOPQRSTUVWXYZ"
LowerCase == "abcdefghijklmnopqrstuvwxyz"

LowerChar(c) ==
    IF \E i \in 1..26 : Char(UpperCase, i) = c
    THEN Char(LowerCase, CHOOSE i \in 1..26 : Char(UpperCase, i) = c)
    ELSE c

\* str.lower()
RECURSIVE Lower(_)
Lower(s) == IF s = "" THEN "" ELSE LowerChar(Char(s, 1)) \o Lower(SubSeq(s, 2, Len(s)))

B64Alphabet == "ABCDEFGHIJKLMNOPQRSTUVWXYZabcdefghijklmnopqrstuvwxyz0123456789+/"

B64Char(n) == Char(B64Alphabet, n + 1)

\* base64.b64encode(bytes).decode("utf-8")
RECURSIVE b64encode(_)
b64encode(b) ==
    IF b = <<>> THEN ""
    ELSE IF Len(b) = 1
    THEN B64Char(b[1] \div 4) \o B64Char((b[1] % 4) * 16) \o "=="
    ELSE IF Len(b) = 2
    THEN B64Char(b[1] \div 4) \o B64Char((b[1] % 4) * 16 + b[2] \div 16)
         \o B64Char((b[2] % 16) * 4) \o "="
    ELSE B64Char(b[1] \div 4) \o B64Char((b[1] % 4) * 16 + b[2] \div 16)
         \o B64Char((b[2] % 16) * 4 + b[3] \div 64) \o B64Char(b[3] % 64)
         \o b64encode(SubSeq(b, 4, Len(b)))

\* json.dumps of a str: quotes around, quote, backslash and newline escaped
RECURSIVE JsonEscape(_)
JsonEscape(s) ==
    IF s = "" THEN ""
    ELSE LET c == Char(s, 1)
         IN (IF c = "\"" THEN "\\\"" ELSE IF c = "\\" THEN "\\\\"
             ELSE IF c = "\n" THEN "\\n" ELSE c) \o JsonEscape(SubSeq(s, 2, Len(s)))

JsonStr(s) == "\"" \o JsonEscape(s) \o "\""

RECURSIVE Indent(_)
Indent(n) == IF n = 0 THEN "" ELSE "    " \o Indent(n - 1)

\* json.dumps(list, indent=4) of already rendered items at nesting depth n
JsonList(items, n) ==
    IF items = <<>> THEN "[]"
    ELSE "[\n" \o StrJoin(",\n", [i \in 1..Len(items) |-> Indent(n + 1) \o items[i]])
         \o "\n" \o Indent(n) \o "]"

JsonImage(img, n) ==
    "{\n" \o Indent(n + 1) \o "\"id\": " \o JsonStr(img.id) \o ",\n"
    \o Indent(n + 1) \o "\"image_base64\": " \o JsonStr(img.image_base64) \o "\n"
    \o Indent(n) \o "}"

JsonPage(page, n) ==
    "{\n" \o Indent(n + 1) \o "\"markdown\": " \o JsonStr(page.markdown) \o ",\n"
    \o Indent(n + 1) \o "\"images\": "
    \o JsonList([i \in 1..Len(page.images) |-> JsonImage(page.images[i], n + 2)], n + 1)
    \o "\n" \o Indent(n) \o "}"

\* json.dumps(json.loads(pdf_response.json()), indent=4), the pages of the response
JsonDumps(pages) ==
    "{\n" \o Indent(1) \o "\"pages\": "
    \o JsonList([i \in 1..Len(pages) |-> JsonPage(pages[i], 2)], 1) \o "\n}"

-----------------------------------------------------------------------------
(* src/mistral_ocr.py: Markdown assembly                                    *)

Placeholder(img_name) == "![" \o img_name \o "](" \o img_name \o ")"

\* (mutant) the payload also takes the place of the alt text
EmbeddedBoth(img_name, base64_str) == "![" \o base64_str \o "](" \o base64_str \o ")"

Embedded(img_name, base64_str) == "![" \o img_name \o "](" \o base64_str \o ")"

\* one turn of the for loop of replace_images_in_markdown
ReplaceItem(md, item) == StrReplace(md, Placeholder(item[1]), Embedded(item[1], item[2]))

RECURSIVE ReplaceItems(_, _, _)
ReplaceItems(md, d, i) ==
    IF i > Len(d) THEN md ELSE ReplaceItems(ReplaceItem(md, d[i]), d, i + 1)

replace_images_in_markdown(md, d) == ReplaceItems(md, d, 1)

\* {img.id: img.image_base64 for img in page.images}
RECURSIVE ImageData(_, _)
ImageData(imgs, d) ==
    IF imgs = <<>> THEN d
    ELSE ImageData(Tail(imgs), DictSet(d, imgs[1].id, imgs[1].image_base64))

image_data(page) == ImageData(page.images, <<>>)

RECURSIVE AllImages(_)
AllImages(pages) ==
    IF pages = <<>> THEN <<>> ELSE pages[1].images \o AllImages(Tail(pages))

\* (mutant) one image map for the whole document
PageMarkdownOneMap(page) ==
    replace_images_in_markdown(page.markdown, ImageData(AllImages(pdf_response), <<>>))

PageMarkdown(page) == replace_images_in_markdown(page.markdown, image_data(page))

-----------------------------------------------------------------------------
(* Bounds and input sets                                                    *)

\* pages + runs of text + images of an OCR response
MaxResponseSize == 5

\* text runs + dict items of a direct call of replace_images_in_markdown
MaxReplSize == 5

\* what the OCR endpoint puts in a page: text runs, image ids as the vendor
\* forms them, base64 payloads
MdFrags    == {"![img-0](img-0)", "![img-1](img-1)", "![img-0](img-1)", "Hello"}
MdIds      == {"img-0", "img-1"}
MdPayloads == {"AAAA", "QkI="}

ExampleResponse ==
    << [markdown |-> "![img-0](img-0)",
        images |-> <<[id |-> "img-0", image_base64 |-> "AAAA"]>>],
       [markdown |-> "Hello", images |-> <<>>] >>

\* arguments of a direct call: any strings
RawFrags    == {"![a](a)", "![b](b)", "H", "![![a](a)](![a](a))"}
RawIds      == {"a", "b", "![a](a)"}
RawPayloads == {"QQ", "b", "x)![b](b"}

-----------------------------------------------------------------------------
(* Idle values of the parts a specification does not exercise               *)

NoImage == [state |-> "none", bytes |-> <<>>, size |-> 0, width |-> 0, height |-> 0]
NoRet   == [kind |-> "unset", value |-> ""]
NoDisk  == [target |-> "none", is_file |-> FALSE, readable |-> FALSE]

ToolIdle(t, p) ==
    /\ tool = t /\ pc = p
    /\ environ_key = "set" /\ dotenv_key = "unset"
    /\ argv_path = "none" /\ disk = NoDisk
    /\ steps = <<>> /\ files = {} /\ out_dir = "absent"
    /\ log = <<>> /\ exc = "none" /\ exit_status = "running"
    /\ ret = NoRet /\ image = NoImage

MdIdle == pdf_response = <<>> /\ markdowns = <<>> /\ markdown_content = "unset"

ReplIdle ==
    /\ markdown_in = "" /\ markdown_str = "" /\ images_dict = <<>> /\ item_idx = 0
    /\ input_size = 0

-----------------------------------------------------------------------------
(* replace_images_in_markdown called directly (a static method)             *)

ReplInit == ToolIdle("replace_images_in_markdown", "args") /\ MdIdle /\ ReplIdle

\* the caller composes the first argument, a run of text at a time
ArgText ==
    /\ pc = "args" /\ input_size < MaxReplSize
    /\ \E f \in RawFrags : markdown_in' = markdown_in \o f
    /\ input_size' = input_size + 1
    /\ UNCHANGED <<toolVars, mdVars, markdown_str, images_dict, item_idx>>

\* the caller composes the second argument, an item at a time
ArgItem ==
    /\ pc = "args" /\ input_size < MaxReplSize
    /\ \E k \in RawIds, v \in RawPayloads : images_dict' = DictSet(images_dict, k, v)
    /\ input_size' = input_size + 1
    /\ UNCHANGED <<toolVars, mdVars, markdown_in, markdown_str, item_idx>>

ReplCall ==
    /\ pc = "args"
    /\ pc' = "loop"
    /\ markdown_str' = markdown_in
    /\ item_idx' = 0
    /\ UNCHANGED <<toolRest, mdVars, markdown_in, images_dict, input_size>>

\* for img_name, base64_str in images_dict.items(): markdown_str = ...
ReplLoop ==
    /\ pc = "loop" /\ item_idx < Len(images_dict)
    /\ markdown_str' = ReplaceItem(markdown_str, images_dict[item_idx + 1])
    /\ item_idx' = item_idx + 1
    /\ UNCHANGED <<toolVars, mdVars, markdown_in, images_dict, input_size>>

\* return markdown_str
ReplReturn ==
    /\ pc = "loop" /\ item_idx = Len(images_dict)
    /\ pc' = "returned"
    /\ ret' = [kind |-> "str", value |-> markdown_str]
    /\ UNCHANGED <<tool, environ_key, dotenv_key, argv_path, disk, steps, files,
                   out_dir, log, exc, exit_status, image, mdVars, replVars>>

ReplNext == ArgText \/ ArgItem \/ ReplCall \/ ReplLoop \/ ReplReturn

SpecRepl == ReplInit /\ [][ReplNext]_vars

-----------------------------------------------------------------------------
(* get_combined_markdown on an OCR response                                 *)

MdInit == ToolIdle("get_combined_markdown", "response") /\ MdIdle /\ ReplIdle

\* the OCR endpoint composes its response: a further page, ...
VendorPage ==
    /\ pc = "response" /\ input_size < MaxResponseSize
    /\ pdf_response' = Append(pdf_response, [markdown |-> "", images |-> <<>>])
    /\ input_size' = input_size + 1
    /\ UNCHANGED <<toolVars, replLocals, markdowns, markdown_content>>

\* ... a further run of text in the last page, ...
VendorText ==
    /\ pc = "response" /\ input_size < MaxResponseSize
    /\ pdf_response # <<>>
    /\ \E f \in MdFrags :
         pdf_response' = [pdf_response EXCEPT ![Len(pdf_response)].markdown = @ \o f]
    /\ input_size' = input_size + 1
    /\ UNCHANGED <<toolVars, replLocals, markdowns, markdown_content>>

\* ... a further image of the last page.
VendorImage ==
    /\ pc = "response" /\ input_size < MaxResponseSize
    /\ pdf_response # <<>>
    /\ \E id \in MdIds, b \in MdPayloads :
         pdf_response' = [pdf_response EXCEPT ![Len(pdf_response)].images =
             Append(@, [id |-> id, image_base64 |-> b])]
    /\ input_size' = input_size + 1
    /\ UNCHANGED <<toolVars, replLocals, markdowns, markdown_content>>

\* get_combined_markdown(ocr_response) is entered: markdowns = []
CombineCall ==
    /\ pc = "response"
    /\ pc' = "combine"
    /\ markdowns' = <<>>
    /\ UNCHANGED <<toolRest, replVars, pdf_response, markdown_content>>

\* for page in ocr_response.pages: markdowns.append(...)
CombinePage ==
    /\ pc = "combine" /\ Len(markdowns) < Len(pdf_response)
    /\ markdowns' = Append(markdowns, PageMarkdown(pdf_response[Len(markdowns) + 1]))
    /\ UNCHANGED <<toolVars, replVars, pdf_response, markdown_content>>

\* return "\n\n".join(markdowns)
CombineJoin ==
    /\ pc = "combine" /\ Len(markdowns) = Len(pdf_response)
    /\ markdown_content' = StrJoin("\n\n", markdowns)
    /\ pc' = "combined"
    /\ UNCHANGED <<toolRest, replVars, pdf_response, markdowns>>

MdNext == VendorPage \/ VendorText \/ VendorImage \/ CombineCall \/ CombinePage \/ CombineJoin

SpecMd == MdInit /\ [][MdNext]_vars

-----------------------------------------------------------------------------
(* The two tools and the image helpers: inputs                              *)

MB == 1048576

\* resize_image_if_needed's default max_size_mb
DefaultMaxSizeMb == 5

InputFile == "data/ESA Unclassified/[AD39] JUI-EST-INST-RS-001 Is2.2_JUICE Instruments Reduced Thermal Model Specification.md"

OutputFile == "output/requirements.csv"

\* sys.argv[1] of the OCR tool
ArgPaths == {"doc.pdf", "doc.PDF", "scan.Pdf", "notes.txt", ".pdf", "in.d/doc", "a.b.pdf"}

\* what a symbolic link at the path may point to
LinkTargets == {"real.pdf", "data.bin"}

\* the path as resolve() finds it on disk
DiskStates(path) ==
    {d \in [target : {path} \cup LinkTargets, is_file : BOOLEAN, readable : BOOLEAN] :
        d.readable => d.is_file}

\* responses of the OCR endpoint met by the command line tool
SampleResponses ==
    { <<>>,
      ExampleResponse,
      << [markdown |-> "![img-1](img-1)",
          images |-> <<[id |-> "img-0", image_base64 |-> "AAAA"]>>],
         [markdown |-> "Hello",
          images |-> <<[id |-> "img-1", image_base64 |-> "QkI="]>>] >> }

\* the chat completion's message content
ChatContent == "code,description\nR-1,[The unit shall ...]\n"

\* files handed to the image helpers: size is Len(bytes) for the small
\* ones; the bytes of the large ones are left out
ImageStates == {"missing", "unreadable", "undecodable", "image"}

SmallImages ==
    {[state |-> st, bytes |-> b, size |-> Len(b), width |-> 1, height |-> 1] :
        st \in ImageStates \ {"missing"}, b \in {<<>>, <<77>>, <<77, 97>>, <<77, 97, 110>>}}

LargeImages ==
    {[state |-> st, bytes |-> <<>>, size |-> sz, width |-> w, height |-> h] :
        st \in ImageStates \ {"missing"},
        sz \in {DefaultMaxSizeMb * MB, DefaultMaxSizeMb * MB + 1, 2 * DefaultMaxSizeMb * MB},
        w \in {1, 20}, h \in {1, 20}}

MissingImage == [state |-> "missing", bytes |-> <<>>, size |-> 0, width |-> 0, height |-> 0]

-----------------------------------------------------------------------------
(* Shared steps: logging, raising, the history                              *)

Info(msg)  == [level |-> "INFO", msg |-> msg]
Error(msg) == [level |-> "ERROR", msg |-> msg]

Did(op, ok) == steps' = Append(steps, [op |-> op, ok |-> ok])

Raise(e) == exc' = e /\ pc' = "raised"

fixedVars == <<tool, dotenv_key, argv_path, disk, image>>

\* with open(path, "w") as f: f.write(data): the open may fail, and leaves
\* nothing; the write may fail, and leaves the file open() made
WriteFile(path, data, outcome) ==
    files' = CASE outcome = "ok"         -> files \cup {[path |-> path, data |-> data, complete |-> TRUE]}
               [] outcome = "write_fails" -> files \cup {[path |-> path, data |-> "", complete |-> FALSE]}
               [] OTHER                   -> files

WriteOutcomes == {"ok", "open_fails", "write_fails"}

-----------------------------------------------------------------------------
(* src/mistral_ocr.py run as a script                                       *)

\* if len(sys.argv) < 2: logging.error(usage); sys.exit(1)
OcrMain ==
    /\ tool = "ocr_cli" /\ pc = "main"
    /\ IF argv_path = "none"
       THEN /\ log' = Append(log, Error("Usage: python script.py <PDF_PATH>"))
            /\ exit_status' = "1"
            /\ pc' = "exited"
       ELSE /\ pc' = "init"
            /\ UNCHANGED <<log, exit_status>>
    /\ UNCHANGED <<fixedVars, environ_key, steps, files, out_dir, exc, ret, mdVars, replVars>>

\* MistralOCRProcessor.__init__
ProcessorInit ==
    /\ tool = "ocr_cli" /\ pc = "init"
    /\ IF environ_key # "set"
       THEN Raise("ValueError: MISTRALAI_API_KEY not found in environment variables")
       ELSE pc' = "upload_pdf" /\ UNCHANGED exc
    /\ UNCHANGED <<fixedVars, environ_key, steps, files, out_dir, log, exit_status, ret,
                   mdVars, replVars>>

\* (mutant) the suffix compared as written, without lower()
UploadPdfValidateCased ==
    /\ tool = "ocr_cli" /\ pc = "upload_pdf"
    /\ IF ~disk.is_file
       THEN Raise("FileNotFoundError: File not found") /\ UNCHANGED log
       ELSE IF Suffix(disk.target) # ".pdf"
       THEN Raise("ValueError: Invalid file format. Only PDF files are supported.")
            /\ UNCHANGED log
       ELSE /\ log' = Append(log, Info("Uploading PDF"))
            /\ pc' = "files_upload"
            /\ UNCHANGED exc
    /\ UNCHANGED <<fixedVars, environ_key, steps, files, out_dir, exit_status, ret,
                   mdVars, replVars>>

\* upload_pdf, to the upload call: resolve, is_file, suffix, logging.info
UploadPdfValidate ==
    /\ tool = "ocr_cli" /\ pc = "upload_pdf"
    /\ LET pdf_file == disk.target IN
       IF ~disk.is_file
       THEN Raise("FileNotFoundError: File not found") /\ UNCHANGED log
       ELSE IF Lower(Suffix(pdf_file)) # ".pdf"
       THEN Raise("ValueError: Invalid file format. Only PDF files are supported.")
            /\ UNCHANGED log
       ELSE /\ log' = Append(log, Info("Uploading PDF"))
            /\ pc' = "files_upload"
            /\ UNCHANGED exc
    /\ UNCHANGED <<fixedVars, environ_key, steps, files, out_dir, exit_status, ret,
                   mdVars, replVars>>

\* (mutant) a failed upload is tried again
FilesUploadRetry ==
    /\ tool = "ocr_cli" /\ pc = "files_upload"
    /\ IF ~disk.readable
       THEN /\ Did("read_bytes", FALSE)
            /\ Raise("PermissionError")
       ELSE \E ok \in BOOLEAN :
            /\ steps' = steps \o <<[op |-> "read_bytes", ok |-> TRUE],
                                   [op |-> "files.upload", ok |-> ok]>>
            /\ pc' = IF ok THEN "get_signed_url" ELSE "files_upload"
            /\ UNCHANGED exc
    /\ UNCHANGED <<fixedVars, environ_key, files, out_dir, log, exit_status, ret,
                   mdVars, replVars>>

\* client.files.upload(file={..., "content": pdf_file.read_bytes()}, purpose="ocr")
FilesUpload ==
    /\ tool = "ocr_cli" /\ pc = "files_upload"
    /\ IF ~disk.readable
       THEN /\ Did("read_bytes", FALSE)
            /\ Raise("PermissionError")
       ELSE \E ok \in BOOLEAN :
            /\ steps' = steps \o <<[op |-> "read_bytes", ok |-> TRUE],
                                   [op |-> "files.upload", ok |-> ok]>>
            /\ IF ok THEN pc' = "get_signed_url" /\ UNCHANGED exc
                     ELSE Raise("SDKError: files.upload")
    /\ UNCHANGED <<fixedVars, environ_key, files, out_dir, log, exit_status, ret,
                   mdVars, replVars>>

\* client.files.get_signed_url(file_id=uploaded_file.id, expiry=1); return
\* signed_url.url; then process_pdf's logging.info
GetSignedUrl ==
    /\ tool = "ocr_cli" /\ pc = "get_signed_url"
    /\ \E ok \in BOOLEAN :
         /\ Did("files.get_signed_url", ok)
         /\ IF ok THEN /\ pc' = "ocr_process"
                       /\ log' = Append(log, Info("Performing OCR on the document..."))
                       /\ UNCHANGED exc
                  ELSE Raise("SDKError: files.get_signed_url") /\ UNCHANGED log
    /\ UNCHANGED <<fixedVars, environ_key, files, out_dir, exit_status, ret,
                   mdVars, replVars>>

\* (mutant) a failed OCR call is taken for an empty response
OcrProcessLenient ==
    /\ tool = "ocr_cli" /\ pc = "ocr_process"
    /\ \E ok \in BOOLEAN :
         /\ Did("ocr.process", ok)
         /\ \E r \in SampleResponses : pdf_response' = IF ok THEN r ELSE <<>>
         /\ pc' = "write_json"
         /\ UNCHANGED exc
    /\ UNCHANGED <<fixedVars, environ_key, files, out_dir, log, exit_status, ret,
                   markdowns, markdown_content, replVars>>

\* client.ocr.process(document=..., model="mistral-ocr-latest", include_image_base64=True)
OcrProcess ==
    /\ tool = "ocr_cli" /\ pc = "ocr_process"
    /\ \/ /\ Did("ocr.process", TRUE)
          /\ \E r \in SampleResponses : pdf_response' = r
          /\ pc' = "write_json"
          /\ UNCHANGED exc
       \/ /\ Did("ocr.process", FALSE)
          /\ Raise("SDKError: ocr.process")
          /\ UNCHANGED pdf_response
    /\ UNCHANGED <<fixedVars, environ_key, files, out_dir, log, exit_status, ret,
                   markdowns, markdown_content, replVars>>

\* (mutant) the response is not persisted
WriteJsonSkipped ==
    /\ tool = "ocr_cli" /\ pc = "write_json"
    /\ Did("write_json", TRUE)
    /\ log' = Append(log, Info("OCR output saved"))
    /\ pc' = "combine"
    /\ markdowns' = <<>>
    /\ UNCHANGED <<fixedVars, environ_key, files, out_dir, exc, exit_status, ret,
                   pdf_response, markdown_content, replVars>>

\* process_pdf, from json.loads to the call of get_combined_markdown
WriteJson ==
    /\ tool = "ocr_cli" /\ pc = "write_json"
    /\ \E outcome \in WriteOutcomes :
         /\ WriteFile(WithSuffix(argv_path, ".json"), JsonDumps(pdf_response), outcome)
         /\ Did("write_json", outcome = "ok")
         /\ IF outcome = "ok"
            THEN /\ log' = Append(log, Info("OCR output saved"))
                 /\ pc' = "combine"
                 /\ markdowns' = <<>>
                 /\ UNCHANGED exc
            ELSE /\ Raise("OSError: json")
                 /\ UNCHANGED <<log, markdowns>>
    /\ UNCHANGED <<fixedVars, environ_key, out_dir, exit_status, ret,
                   pdf_response, markdown_content, replVars>>

\* the script, after process_pdf returned: the .md file, the log record, display
WriteMarkdown ==
    /\ tool = "ocr_cli" /\ pc = "combined"
    /\ \E outcome \in WriteOutcomes :
         /\ WriteFile(WithSuffix(argv_path, ".md"), markdown_content, outcome)
         /\ IF outcome = "ok"
            THEN /\ steps' = steps \o <<[op |-> "write_md", ok |-> TRUE],
                                        [op |-> "display", ok |-> TRUE]>>
                 /\ log' = Append(log, Info("Markdown output saved"))
                 /\ exit_status' = "0"
                 /\ pc' = "exited"
                 /\ UNCHANGED exc
            ELSE /\ Did("write_md", FALSE)
                 /\ Raise("OSError: md")
                 /\ UNCHANGED <<log, exit_status>>
    /\ UNCHANGED <<fixedVars, environ_key, out_dir, ret, mdVars, replVars>>

\* no handler in the script: the interpreter prints the traceback and exits 1
OcrUncaught ==
    /\ tool = "ocr_cli" /\ pc = "raised"
    /\ exit_status' = "1"
    /\ pc' = "exited"
    /\ UNCHANGED <<fixedVars, environ_key, steps, files, out_dir, log, exc, ret,
                   mdVars, replVars>>

-----------------------------------------------------------------------------
(* src/requirement_extractor.py run as a script                             *)

\* load_dotenv(): a variable already in os.environ, empty or not, is kept
ExtractorLoadDotenv ==
    /\ tool = "extractor_cli" /\ pc = "main"
    /\ environ_key' = IF environ_key = "unset" THEN dotenv_key ELSE environ_key
    /\ pc' = "mkdir"
    /\ UNCHANGED <<fixedVars, steps, files, out_dir, log, exc, exit_status, ret,
                   mdVars, replVars>>

\* Path('output').mkdir(exist_ok=True)
ExtractorMkdir ==
    /\ tool = "extractor_cli" /\ pc = "mkdir"
    /\ IF out_dir = "blocked"
       THEN /\ Did("mkdir", FALSE)
            /\ Raise("FileExistsError: output")
            /\ UNCHANGED out_dir
       ELSE /\ Did("mkdir", TRUE)
            /\ out_dir' = IF out_dir = "absent" THEN "created" ELSE out_dir
            /\ pc' = "read_input_file"
            /\ UNCHANGED exc
    /\ UNCHANGED <<fixedVars, environ_key, files, log, exit_status, ret, mdVars, replVars>>

\* (mutant) the except clause logs and does not raise
read_input_file_swallowing ==
    /\ tool = "extractor_cli" /\ pc = "read_input_file"
    /\ Did("read_input", disk.is_file /\ disk.readable)
    /\ log' = IF disk.is_file /\ disk.readable
              THEN Append(log, Info("Reading input file"))
              ELSE log \o <<Info("Reading input file"), Error("Error reading file")>>
    /\ pc' = "get_mistral_response"
    /\ UNCHANGED <<fixedVars, environ_key, files, out_dir, exc, exit_status, ret,
                   mdVars, replVars>>

\* logging.info; ocr_text = read_input_file(input_file); the prompt
read_input_file ==
    /\ tool = "extractor_cli" /\ pc = "read_input_file"
    /\ IF disk.is_file /\ disk.readable
       THEN /\ Did("read_input", TRUE)
            /\ log' = Append(log, Info("Reading input file"))
            /\ pc' = "get_mistral_response"
            /\ UNCHANGED exc
       ELSE /\ Did("read_input", FALSE)
            /\ log' = log \o <<Info("Reading input file"), Error("Error reading file")>>
            /\ Raise(IF disk.is_file THEN "PermissionError" ELSE "FileNotFoundError")
    /\ UNCHANGED <<fixedVars, environ_key, files, out_dir, exit_status, ret, mdVars, replVars>>

\* (mutant) the client is built without a look at the key
get_mistral_response_unchecked ==
    /\ tool = "extractor_cli" /\ pc = "get_mistral_response"
    /\ \E ok \in BOOLEAN :
         /\ Did("chat.complete", ok)
         /\ IF ok
            THEN /\ log' = Append(log, Info("Sending prompt to Mistral"))
                 /\ pc' = "save_output"
                 /\ UNCHANGED exc
            ELSE /\ log' = log \o <<Info("Sending prompt to Mistral"),
                                    Error("Error calling Mistral API")>>
                 /\ Raise("SDKError: chat.complete")
    /\ UNCHANGED <<fixedVars, environ_key, files, out_dir, exit_status, ret, mdVars, replVars>>

\* logging.info; response = get_mistral_response(prompt, model)
get_mistral_response ==
    /\ tool = "extractor_cli" /\ pc = "get_mistral_response"
    /\ IF environ_key # "set"
       THEN /\ log' = log \o <<Info("Sending prompt to Mistral"), Error("Error calling Mistral API")>>
            /\ Raise("ValueError: MISTRALAI_API_KEY not found in environment variables")
            /\ UNCHANGED steps
       ELSE \E ok \in BOOLEAN :
            /\ Did("chat.complete", ok)
            /\ IF ok
               THEN /\ log' = Append(log, Info("Sending prompt to Mistral"))
                    /\ pc' = "save_output"
                    /\ UNCHANGED exc
               ELSE /\ log' = log \o <<Info("Sending prompt to Mistral"),
                                       Error("Error calling Mistral API")>>
                    /\ Raise("SDKError: chat.complete")
    /\ UNCHANGED <<fixedVars, environ_key, files, out_dir, exit_status, ret, mdVars, replVars>>

\* save_output(response, output_file); main returns and the script ends
save_output ==
    /\ tool = "extractor_cli" /\ pc = "save_output"
    /\ \E outcome \in WriteOutcomes :
         /\ WriteFile(OutputFile, ChatContent, outcome)
         /\ Did("write_csv", outcome = "ok")
         /\ IF outcome = "ok"
            THEN /\ log' = Append(log, Info("Results saved"))
                 /\ exit_status' = "0"
                 /\ pc' = "exited"
                 /\ UNCHANGED exc
            ELSE /\ log' = Append(log, Error("Error saving output"))
                 /\ Raise("OSError: csv")
                 /\ UNCHANGED exit_status
    /\ UNCHANGED <<fixedVars, environ_key, out_dir, ret, mdVars, replVars>>

\* except Exception as e: logging.error(...); exit(1)
ExtractorExcept ==
    /\ tool = "extractor_cli" /\ pc = "raised"
    /\ log' = Append(log, Error("Application error"))
    /\ exit_status' = "1"
    /\ pc' = "exited"
    /\ UNCHANGED <<fixedVars, environ_key, steps, files, out_dir, exc, ret, mdVars, replVars>>

-----------------------------------------------------------------------------
(* The image helpers, called by a user of the class                         *)

None == [kind |-> "None", value |-> ""]

\* encode_image(image_path)
encode_image ==
    /\ tool = "encode_image" /\ pc = "call"
    /\ CASE image.state = "missing" ->
              /\ log' = Append(log, Error("File not found"))
              /\ ret' = None
         [] image.state = "unreadable" ->
              /\ log' = Append(log, Error("Error encoding image"))
              /\ ret' = None
         [] OTHER ->
              /\ ret' = [kind |-> "str", value |-> b64encode(image.bytes)]
              /\ UNCHANGED log
    /\ pc' = "returned"
    /\ UNCHANGED <<fixedVars, environ_key, steps, files, out_dir, exc, exit_status,
                   mdVars, replVars>>

RECURSIVE GCD(_, _)
GCD(a, b) == IF b = 0 THEN a ELSE GCD(b, a % b)

ISqrt(n) == CHOOSE r \in 0..n : r * r <= n /\ (r + 1) * (r + 1) > n

\* int(side * resize_ratio ** 0.5), where
\* resize_ratio = (max_size_mb * 1024 * 1024 * 0.9) / os.path.getsize(image_path)
NewSide(side, size, max_size_mb) ==
    LET num == max_size_mb * MB * 9
        den == size * 10
        g   == GCD(num, den)
    IN ISqrt((side * side * (num \div g)) \div (den \div g))

\* resize_image_if_needed(image_path), max_size_mb and output_format defaulted
resize_image_if_needed ==
    /\ tool = "resize_image_if_needed" /\ pc = "call"
    /\ IF image.state = "missing"
       THEN \* os.path.getsize, outside the try
            Raise("FileNotFoundError") /\ UNCHANGED <<log, ret>>
       ELSE IF image.size <= DefaultMaxSizeMb * MB
       THEN \* with open(image_path, "rb") as f: return f.read(), outside the try
            IF image.state = "unreadable"
            THEN Raise("PermissionError") /\ UNCHANGED <<log, ret>>
            ELSE /\ ret' = [kind |-> "bytes", value |-> image.bytes]
                 /\ pc' = "returned"
                 /\ UNCHANGED <<log, exc>>
       ELSE IF image.state # "image"
       THEN /\ log' = log \o <<Info("Resizing image"), Error("Error resizing image")>>
            /\ ret' = None
            /\ pc' = "returned"
            /\ UNCHANGED exc
       ELSE \E ok \in BOOLEAN :
            /\ pc' = "returned"
            /\ UNCHANGED exc
            /\ IF ok
               THEN /\ log' = Append(log, Info("Resizing image"))
                    /\ ret' = [kind |-> "bytes",
                               value |-> [format |-> "JPEG", quality |-> 85,
                                          width  |-> NewSide(image.width, image.size, DefaultMaxSizeMb),
                                          height |-> NewSide(image.height, image.size, DefaultMaxSizeMb)]]
               ELSE /\ log' = log \o <<Info("Resizing image"), Error("Error resizing image")>>
                    /\ ret' = None
    /\ UNCHANGED <<fixedVars, environ_key, steps, files, out_dir, exit_status, mdVars, replVars>>

-----------------------------------------------------------------------------
(* The specification of the tools                                           *)

Init ==
    /\ tool \in {"ocr_cli", "extractor_cli", "encode_image", "resize_image_if_needed"}
    /\ pc = IF tool \in {"ocr_cli", "extractor_cli"} THEN "main" ELSE "call"
    /\ environ_key \in IF tool \in {"ocr_cli", "extractor_cli"}
                       THEN {"unset", "empty", "set"} ELSE {"set"}
    /\ dotenv_key \in IF tool = "extractor_cli" THEN {"unset", "set"} ELSE {"unset"}
    /\ argv_path \in CASE tool = "ocr_cli"       -> ArgPaths \cup {"none"}
                       [] tool = "extractor_cli" -> {InputFile}
                       [] OTHER                  -> {"none"}
    /\ disk \in CASE tool = "ocr_cli" /\ argv_path # "none" -> DiskStates(argv_path)
                  [] tool = "extractor_cli" ->
                       {d \in DiskStates(InputFile) : d.target = InputFile}
                  [] OTHER -> {NoDisk}
    /\ out_dir \in IF tool = "extractor_cli" THEN {"absent", "exists", "blocked"}
                   ELSE {"absent"}
    /\ image \in CASE tool = "encode_image" -> SmallImages \cup {MissingImage}
                   [] tool = "resize_image_if_needed" ->
                        SmallImages \cup LargeImages \cup {MissingImage}
                   [] OTHER -> {NoImage}
    /\ steps = <<>> /\ files = {} /\ log = <<>>
    /\ exc = "none" /\ exit_status = "running" /\ ret = NoRet
    /\ MdIdle /\ ReplIdle

Next ==
    \/ OcrMain \/ ProcessorInit \/ UploadPdfValidate \/ FilesUpload \/ GetSignedUrl
    \/ OcrProcess \/ WriteJson \/ CombinePage \/ CombineJoin \/ WriteMarkdown
    \/ OcrUncaught
    \/ ExtractorLoadDotenv \/ ExtractorMkdir \/ read_input_file
    \/ get_mistral_response \/ save_output \/ ExtractorExcept
    \/ encode_image \/ resize_image_if_needed

Spec == Init /\ [][Next]_vars

-----------------------------------------------------------------------------
(* What the claims speak of, stated apart from the code's own loops         *)

\* number of occurrences of tok in s, scanning left to right without overlap
RECURSIVE Count(_, _)
Count(s, tok) ==
    IF Len(s) < Len(tok) THEN 0
    ELSE IF StartsWith(s, tok)
         THEN 1 + Count(SubSeq(s, Len(tok) + 1, Len(s)), tok)
         ELSE Count(SubSeq(s, 2, Len(s)), tok)

\* the payload a page's image map holds for id: that of the last image so named
MapIds(page) == {page.images[i].id : i \in 1..Len(page.images)}

MapPayload(page, id) ==
    LET last == CHOOSE i \in 1..Len(page.images) :
                  /\ page.images[i].id = id
                  /\ \A j \in (i + 1)..Len(page.images) : page.images[j].id # id
    IN page.images[last].image_base64

\* one pass over the text: at each position where the token of a mapped id
\* stands, the token with the payload in its place; any other character as is
RECURSIVE Substituted(_, _)
Substituted(s, page) ==
    IF s = "" THEN ""
    ELSE LET hit == {id \in MapIds(page) : StartsWith(s, Placeholder(id))}
         IN IF hit # {}
            THEN LET id == CHOOSE id \in hit : TRUE
                 IN "![" \o id \o "](" \o MapPayload(page, id) \o ")"
                    \o Substituted(SubSeq(s, Len(Placeholder(id)) + 1, Len(s)), page)
            ELSE Char(s, 1) \o Substituted(SubSeq(s, 2, Len(s)), page)

\* the pages' texts one after the other, "\n\n" between two neighbours
RECURSIVE Joined(_, _)
Joined(pages, n) ==
    IF n = 0 THEN ""
    ELSE IF n = 1 THEN Substituted(pages[1].markdown, pages[1])
    ELSE Joined(pages, n - 1) \o "\n\n" \o Substituted(pages[n].markdown, pages[n])

\* C1: get_combined_markdown returns the pages' Markdown in page order joined
\* by exactly "\n\n", every token ![id](id) of an id of the page's image map
\* replaced by ![id](payload) and every other character unchanged; the spec's
\* two-page example yields "![img-0](AAAA)\n\nHello".
C1_CombinedMarkdown ==
    /\ pc \in {"combine", "combined"} =>
         \A i \in 1..Len(markdowns) :
            markdowns[i] = Substituted(pdf_response[i].markdown, pdf_response[i])
    /\ pc = "combined" =>
         /\ markdown_content = Joined(pdf_response, Len(pdf_response))
         /\ pdf_response = <<>> => markdown_content = ""
         /\ pdf_response = ExampleResponse => markdown_content = "![img-0](AAAA)\n\nHello"

C1_Witness ==
    /\ pc = "combined"
    /\ pdf_response = ExampleResponse
    /\ markdown_content = "![img-0](AAAA)\n\nHello"

\* C7: a placeholder whose id is not in its own page's image map stands
\* verbatim in the output (also when another page maps the id), an image
\* whose id matches no placeholder of its page changes nothing, and the
\* assembly ends without an error.
Unmapped(page) == {id \in MdIds \ MapIds(page) : Count(page.markdown, Placeholder(id)) > 0}

Unmatched(page) == {id \in MapIds(page) : Count(page.markdown, Placeholder(id)) = 0}

WithoutImages(page, ids) ==
    [page EXCEPT !.images = SelectSeq(page.images, LAMBDA img : img.id \notin ids)]

C7_MismatchLeavesText ==
    /\ pc \in {"response", "combine", "combined"} => exc = "none"
    /\ pc \in {"combine", "combined"} =>
         \A i \in 1..Len(markdowns) :
            LET page == pdf_response[i] IN
            /\ \A id \in MdIds \ MapIds(page) :
                 Count(markdowns[i], Placeholder(id)) = Count(page.markdown, Placeholder(id))
            /\ MapIds(page) = Unmatched(page) => markdowns[i] = page.markdown
            /\ markdowns[i] = Substituted(page.markdown, WithoutImages(page, Unmatched(page)))
    /\ pc = "combined" =>
         \A id \in MdIds :
            Count(markdown_content, Placeholder(id)) >=
              Cardinality({i \in 1..Len(pdf_response) : id \in Unmapped(pdf_response[i])})

C7_Witness ==
    /\ pc = "combined"
    /\ Len(pdf_response) = 2
    /\ "img-1" \in Unmapped(pdf_response[1])
    /\ "img-1" \in Unmatched(pdf_response[2])
    /\ markdown_content = pdf_response[1].markdown \o "\n\n" \o pdf_response[2].markdown

\* C9: replace_images_in_markdown yields the same result whatever the order
\* in which the entries of the map are processed, for arbitrary strings.
Orders(d) ==
    {p \in [1..Len(d) -> 1..Len(d)] : \A i, j \in 1..Len(d) : i # j => p[i] # p[j]}

Reordered(d, p) == [i \in 1..Len(d) |-> d[p[i]]]

RECURSIVE InOrder(_, _)
InOrder(md, d) ==
    IF d = <<>> THEN md
    ELSE InOrder(StrReplace(md, "![" \o d[1][1] \o "](" \o d[1][1] \o ")",
                                "![" \o d[1][1] \o "](" \o d[1][2] \o ")"), Tail(d))

C9_OrderIndependent_Original ==
    pc = "returned" =>
       \A p \in Orders(images_dict) : InOrder(markdown_in, Reordered(images_dict, p)) = ret.value

\* C9 as amended: ... provided no id and no payload holds one of ! [ ] ( )
Markup == {"!", "[", "]", "(", ")"}

MarkupFree(s) == \A i \in 1..Len(s) : Char(s, i) \notin Markup

PlainDict(d) == \A i \in 1..Len(d) : MarkupFree(d[i][1]) /\ MarkupFree(d[i][2])

C9_OrderIndependent ==
    (pc = "returned" /\ PlainDict(images_dict)) =>
       \A p \in Orders(images_dict) : InOrder(markdown_in, Reordered(images_dict, p)) = ret.value

C9_Witness ==
    /\ pc = "returned"
    /\ PlainDict(images_dict)
    /\ Len(images_dict) = 2
    /\ \A i \in 1..2 : Count(markdown_in, Placeholder(images_dict[i][1])) > 0
    /\ ret.value # markdown_in

-----------------------------------------------------------------------------
(* The tools: what the claims speak of                                      *)

VendorOps == {"files.upload", "files.get_signed_url", "ocr.process", "chat.complete"}

VendorCalls == SelectSeq(steps, LAMBDA st : st.op \in VendorOps)

Ops(seq) == [i \in 1..Len(seq) |-> seq[i].op]

IsPrefix(a, b) == Len(a) <= Len(b) /\ \A i \in 1..Len(a) : a[i] = b[i]

Failed(op) == \E i \in 1..Len(steps) : steps[i].op = op /\ ~steps[i].ok

Succeeded(op) == \E i \in 1..Len(steps) : steps[i].op = op /\ steps[i].ok

FormatError == "ValueError: Invalid file format. Only PDF files are supported."

KeyError == "ValueError: MISTRALAI_API_KEY not found in environment variables"

\* upload_pdf was entered and has checked its argument
UploadPdfRan ==
    /\ tool = "ocr_cli" /\ argv_path # "none" /\ environ_key = "set"
    /\ pc \notin {"main", "init", "upload_pdf"}

PdfEndings == {".pdf", ".pdF", ".pDf", ".pDF", ".Pdf", ".PdF", ".PDf", ".PDF"}

EndsInPdf(path) == \E e \in PdfEndings : EndsWith(path, e)

\* a file name: something, then .pdf in some case
PdfFileName(path) ==
    EndsInPdf(path) /\ Len(path) > 4 /\ Char(path, Len(path) - 4) # "/"

\* C2 as claimed: every path whose extension is not .pdf (in any case) makes
\* upload_pdf fail with the format error before any vendor call, and a path
\* ending in .pdf in any case is not rejected by the extension check.
C2_FormatError_Original ==
    UploadPdfRan =>
       /\ ~EndsInPdf(argv_path) => (exc = FormatError /\ VendorCalls = <<>>)
       /\ EndsInPdf(argv_path) => exc # FormatError

\* C2 as amended: upload_pdf resolves the path first.  A path that resolves
\* to no regular file fails with the file-not-found error; one that resolves
\* to a file whose name is not <stem>.pdf (in any case) fails with the format
\* error; in both cases nothing is read and no vendor call is made.  A
\* resolved name <stem>.pdf, in any case, passes the extension check.
C2_FormatError ==
    UploadPdfRan =>
       /\ ~disk.is_file =>
            (exc = "FileNotFoundError: File not found" /\ steps = <<>>)
       /\ (disk.is_file /\ ~PdfFileName(disk.target)) =>
            (exc = FormatError /\ steps = <<>>)
       /\ (disk.is_file /\ PdfFileName(disk.target)) =>
            /\ exc \notin {FormatError, "FileNotFoundError: File not found"}
            /\ pc = "files_upload" \/ steps # <<>>

C2_Witness ==
    /\ UploadPdfRan
    /\ argv_path = "notes.txt" /\ disk.target = "notes.txt" /\ disk.is_file
    /\ exc = FormatError
    /\ VendorCalls = <<>>

\* C3: in the extractor a failure of any step (reading the input, the API
\* key, the chat call, writing the output) is logged and re-raised and the
\* process ends with status 1; with the input file missing the process ends
\* with status 1, makes no vendor call and does not create the output file.
HasLog(rec) == \E i \in 1..Len(log) : log[i] = rec

InputReadable == disk.is_file /\ disk.readable

C3_ExtractorFailure ==
    tool = "extractor_cli" =>
       /\ pc = "raised" => (exc # "none" /\ exit_status = "running")
       /\ Failed("read_input") => (HasLog(Error("Error reading file")) /\ exc # "none")
       /\ exc = KeyError => HasLog(Error("Error calling Mistral API"))
       /\ Failed("chat.complete") => (HasLog(Error("Error calling Mistral API")) /\ exc # "none")
       /\ Failed("write_csv") => (HasLog(Error("Error saving output")) /\ exc # "none")
       /\ pc = "exited" =>
            /\ exit_status = (IF exc = "none" THEN "0" ELSE "1")
            /\ exit_status = "1" => log[Len(log)] = Error("Application error")
            /\ exit_status = "0" <=>
                 (/\ out_dir # "blocked" /\ InputReadable /\ environ_key = "set"
                  /\ Succeeded("chat.complete") /\ Succeeded("write_csv"))
            /\ (out_dir # "blocked" /\ ~InputReadable) => Failed("read_input")
            /\ ~disk.is_file =>
                 (exit_status = "1" /\ VendorCalls = <<>> /\ files = {})

C3_Witness ==
    /\ tool = "extractor_cli" /\ pc = "exited"
    /\ ~disk.is_file /\ out_dir = "created"
    /\ HasLog(Error("Error reading file"))
    /\ exit_status = "1"

\* C4: whenever the OCR call of process_pdf succeeded, the raw response is
\* on disk as JSON, at the input path with its suffix replaced by .json,
\* before the Markdown assembly starts and before process_pdf returns; what
\* is written does not depend on the Markdown assembled; and no .json file
\* is written when the upload or the OCR call fails.
JsonPathOf(path) ==
    CASE path = "doc.pdf"   -> "doc.json"
      [] path = "doc.PDF"   -> "doc.json"
      [] path = "scan.Pdf"  -> "scan.json"
      [] path = "a.b.pdf"   -> "a.b.json"
      [] path = "notes.txt" -> "notes.json"
      [] path = "in.d/doc"  -> "in.d/doc.json"
      [] path = ".pdf"      -> ".pdf.json"
      [] OTHER              -> "?"

JsonFiles == {f \in files : EndsWith(f.path, ".json")}

C4_JsonBeforeMarkdown ==
    tool = "ocr_cli" =>
       /\ (pc \in {"combine", "combined"} \/ markdowns # <<>> \/ markdown_content # "unset") =>
            /\ Succeeded("ocr.process")
            /\ JsonFiles = {[path |-> JsonPathOf(argv_path),
                             data |-> JsonDumps(pdf_response), complete |-> TRUE]}
       /\ ~Succeeded("ocr.process") => JsonFiles = {}
       /\ \A f \in JsonFiles : f.path = JsonPathOf(argv_path)

C4_Witness ==
    /\ tool = "ocr_cli" /\ pc = "combine" /\ markdowns = <<>>
    /\ markdown_content = "unset"
    /\ pdf_response = ExampleResponse
    /\ argv_path = "notes.txt"
    /\ [path |-> "notes.json", data |-> JsonDumps(ExampleResponse), complete |-> TRUE] \in files

\* C5 as claimed: with MISTRALAI_API_KEY unset or empty each tool fails at
\* startup, before any other step: no input is read, no output directory or
\* file is created, no vendor call is made.
KeyAbsent == environ_key # "set"

C5_KeyAtStartup_Original ==
    (tool \in {"ocr_cli", "extractor_cli"} /\ pc = "exited" /\ KeyAbsent) =>
       /\ exit_status = "1"
       /\ ~Succeeded("read_input") /\ ~Succeeded("read_bytes")
       /\ out_dir # "created"
       /\ files = {}
       /\ VendorCalls = <<>>

\* C5 as amended: with the key unset or empty each tool ends with status 1,
\* makes no vendor call and creates no output file.  The OCR tool fails in
\* the processor's constructor, before any other step; the extractor looks
\* for the key only in get_mistral_response, after it has made the output
\* directory and read the input file.
C5_KeyAbsent ==
    /\ (tool = "ocr_cli" /\ KeyAbsent) =>
          /\ steps = <<>> /\ files = {} /\ out_dir = "absent"
          /\ pc = "exited" => exit_status = "1"
    /\ (tool = "extractor_cli" /\ KeyAbsent /\ pc # "main") =>
          /\ VendorCalls = <<>> /\ files = {}
          /\ IsPrefix(Ops(steps), <<"mkdir", "read_input">>)
          /\ pc = "exited" => exit_status = "1"
          /\ exc = KeyError => (Ops(steps) = <<"mkdir", "read_input">> /\ steps[2].ok)

C5_Witness ==
    /\ tool = "extractor_cli" /\ pc = "exited" /\ KeyAbsent
    /\ exc = KeyError
    /\ out_dir = "created"
    /\ Succeeded("read_input")
    /\ exit_status = "1"

\* C6: encode_image and resize_image_if_needed catch every I/O failure
\* (missing, unreadable or undecodable file), log it and return None; neither
\* raises to its caller.
C6_HelpersNeverRaise ==
    tool \in {"encode_image", "resize_image_if_needed"} =>
       /\ exc = "none"
       /\ pc # "raised"
       /\ (pc = "returned" /\ image.state \in {"missing", "unreadable"}) =>
            (ret = None /\ \E i \in 1..Len(log) : log[i].level = "ERROR")

\* C8 as claimed: when any step of an OCR run fails, no local artifact of
\* the run (<basename>.json, <basename>.md) remains; at most the uploaded
\* asset is left.
OcrRunFailed == tool = "ocr_cli" /\ pc = "exited" /\ exit_status = "1" /\ argv_path # "none"

C8_NoArtifacts_Original == OcrRunFailed => files = {}

\* C8 as amended: nothing is recovered and nothing is cleaned up.  A failure
\* up to and including the OCR call leaves no local file and at most the one
\* uploaded asset; a failed JSON write leaves at most an incomplete .json; a
\* failed .md write leaves the complete .json and at most an incomplete .md.
\* A failed run ends with status 1 and never leaves a complete .md.
MdFiles == {f \in files : EndsWith(f.path, ".md")}

AnyFailed == exc # "none" \/ \E i \in 1..Len(steps) : ~steps[i].ok

C8_NoRecovery ==
    tool = "ocr_cli" =>
       /\ (pc = "exited" /\ argv_path # "none") => (exit_status = "1" <=> AnyFailed)
       /\ Cardinality({i \in 1..Len(steps) : steps[i].op = "files.upload"}) <= 1
       /\ AnyFailed =>
            /\ pc \in {"raised", "exited"}
            /\ \A f \in MdFiles : ~f.complete
            /\ ~Succeeded("write_json") => (MdFiles = {} /\ \A f \in files : ~f.complete)
            /\ ~Succeeded("ocr.process") => files = {}
            /\ Failed("write_md") =>
                 \E f \in JsonFiles : f.complete /\ f.data = JsonDumps(pdf_response)

C8_Witness ==
    /\ OcrRunFailed
    /\ Failed("write_md")
    /\ \E f \in JsonFiles : f.complete
    /\ MdFiles # {}

\* C10: in a run every vendor operation is invoked at most once and in a
\* fixed order (upload, then signed URL, then OCR; the extractor: one chat
\* completion); a failed vendor call is not retried, no vendor call follows
\* it, and its error reaches the caller.
C10_NoRetry ==
    LET c == VendorCalls IN
    /\ tool = "ocr_cli" =>
         IsPrefix(Ops(c), <<"files.upload", "files.get_signed_url", "ocr.process">>)
    /\ tool = "extractor_cli" => IsPrefix(Ops(c), <<"chat.complete">>)
    /\ tool \notin {"ocr_cli", "extractor_cli"} => c = <<>>
    /\ \A i \in 1..Len(c) : ~c[i].ok =>
         /\ i = Len(c)
         /\ steps[Len(steps)] = c[i]
         /\ exc = "SDKError: " \o c[i].op
         /\ pc \in {"raised", "exited"}
         /\ pc = "exited" => exit_status = "1"

C10_Witness ==
    /\ tool = "ocr_cli" /\ pc = "exited" /\ exit_status = "1"
    /\ VendorCalls = <<[op |-> "files.upload", ok |-> TRUE],
                       [op |-> "files.get_signed_url", ok |-> FALSE]>>

=============================================================================
